---- MODULE Spec2Model ----
(***************************************************************************)
(* Model of upload_to_s3.py: the driver loop of main, with the object      *)
(* store, the local source tree and the manifest file as its environment.  *)
(***************************************************************************)
EXTENDS Integers, Sequences, FiniteSets, TLC

\* ------------------------------------------------------------------ bounds

\* Largest number of files collect_files returns in a checked run.
MaxFiles == 2

\* ------------------------------------------------------------- environment

\* The source tree: relative posix paths and contents (byte strings) of its
\* files, in traversal order. Two files may hold the same bytes.
Paths == <<"a.csv", "b.csv", "sub/c.csv", "sub/d.csv">>
Bytes == <<"x", "yz", "x", "yz">>

\* The key prefix given with --prefix, as in the usage example of the module
\* docstring ("" is the default and leaves the relative path as the key).
Prefixes == {"raw/"}

\* Booleans of the command line.
Flags == [skip_existing : BOOLEAN, dry_run : BOOLEAN, verify : BOOLEAN,
          fail_fast : BOOLEAN, manifest : BOOLEAN]

\* What the bucket may hold under a key before the run, relative to the
\* local file that maps to the key.
RemoteKinds == {"absent", "same", "othersize", "nosha", "othersha"}

\* What the bucket holds under a key after upload_file returned: the object
\* as written, or an object another writer or the store changed since.
StoreOutcomes == {"stored", "lost", "truncated", "retagged"}

\* ------------------------------------------------------------ pure helpers

\* compute_sha256: the lowercase hex digest, a function of the content only.
compute_sha256(content) ==
    CASE content = "x"  -> "2d71"
      [] content = "yz" -> "9f0b"
      [] OTHER          -> "e3b0"

\* The same digest in upper case: equal as a number, different as a string.
UpperHex(sha) ==
    CASE sha = "2d71" -> "2D71"
      [] sha = "9f0b" -> "9F0B"
      [] OTHER        -> "E3B0"

\* path.stat().st_size
st_size(content) == Len(content)

\* key = f"{args.prefix}{rel}" if args.prefix else rel
KeyOf(prefix, rel) == IF prefix # "" THEN prefix \o rel ELSE rel

\* Variant of ManifestLine: the key first, then the fingerprint.
KeyFirstLine(sha, key) == key \o "  " \o sha \o "\n"

\* f"{sha}  {key}\n"
ManifestLine(sha, key) == sha \o "  " \o key \o "\n"

\* Python's None for a head_object result, and for a missing metadata entry.
NoSha == "None"
None == [present |-> FALSE, ContentLength |-> 0, sha256 |-> NoSha, src_bytes |-> NoSha]

\* Variant of Object: extra_args without the Metadata entry.
ObjectWithoutMetadata(size, sha) ==
    [present |-> TRUE, ContentLength |-> size, sha256 |-> NoSha, src_bytes |-> NoSha]

\* The object upload_file writes: the file's bytes and the metadata dict.
Object(size, sha) ==
    [present |-> TRUE, ContentLength |-> size, sha256 |-> sha, src_bytes |-> ToString(size)]

\* head_object when the store answers: the 404 of an absent key becomes None.
head_object(st, key) == IF st[key].present THEN st[key] ELSE None

\* Variant of ShouldSkip: a size-only comparison.
NoShaSkip(args, head, size, sha) ==
    args.skip_existing /\ head.present /\ head.ContentLength = size

\* if args.skip_existing: ... if head and head.get("ContentLength") == size
\*    and head.get("Metadata", {}).get("sha256") == sha
ShouldSkip(args, head, size, sha) ==
    /\ args.skip_existing
    /\ head.present
    /\ head.ContentLength = size
    /\ head.sha256 = sha

\* Variant of VerificationFailed: the fingerprint is not compared.
SizeOnlyVerification(head, size, sha) ==
    ~head.present \/ head.ContentLength # size

\* if not head or head.get("ContentLength") != size or
\*    head.get("Metadata", {}).get("sha256") != sha
VerificationFailed(head, size, sha) ==
    \/ ~head.present
    \/ head.ContentLength # size
    \/ head.sha256 # sha

\* Variant of ManifestWrite: the line is never written.
DroppedWrite(mf, lines, sha, key) == lines

\* manifest_file.write(...) under "if manifest_file:"
ManifestWrite(mf, lines, sha, key) ==
    IF mf = "open" THEN Append(lines, ManifestLine(sha, key)) ELSE lines

\* Variants of AfterError: the loop never breaks, or breaks on any error.
NeverBreak(args) == "for"
AlwaysBreak(args) == "summary"

\* if args.fail_fast: break
AfterError(args) == IF args.fail_fast THEN "summary" ELSE "for"

\* Variant of ExitStatus: errors do not reach the exit status.
AlwaysZero(n) == 0

\* return 1 if errors else 0
ExitStatus(n) == IF n # 0 THEN 1 ELSE 0

\* Variant of Transfers: --dry-run is ignored.
UploadAnyway(args) == TRUE

\* if not args.dry_run: upload_file(...)
Transfers(args) == ~args.dry_run

\* The object found under a key before the run, for a local file.
RemoteOf(kind, content) ==
    CASE kind = "absent"    -> None
      [] kind = "same"      -> Object(st_size(content), compute_sha256(content))
      [] kind = "othersize" -> Object(st_size(content) + 1, compute_sha256(content))
      [] kind = "nosha"     -> [Object(st_size(content), NoSha) EXCEPT !.src_bytes = NoSha]
      [] OTHER              -> Object(st_size(content), UpperHex(compute_sha256(content)))

\* The object found under a key after upload_file returned.
AfterUpload(outcome, size, sha) ==
    CASE outcome = "stored"    -> Object(size, sha)
      [] outcome = "lost"      -> None
      [] outcome = "truncated" -> Object(size - 1, sha)
      [] OTHER                 -> Object(size, NoSha)

\* ------------------------------------------------------------------- state

VARIABLES
    args,            \* the parsed command line
    tree,            \* the files collect_files finds, in traversal order
    store,           \* the bucket: key -> object or None
    manifest,        \* the lines of the manifest file on disk
    pc,              \* position of main
    files,           \* main: files
    idx,             \* main: number of files the for loop has taken
    size, sha, head, \* main: locals of the loop body
    total, uploaded, skipped, errors, bytes_uploaded,
    manifest_file,   \* main: the manifest handle: "None", "open", "closed"
    ret,             \* the value main returned, -1 before it returns
    calls,           \* per file, the operations invoked and lines logged
    outcome,         \* per file, the counter it was counted in
    exc,             \* per file, the step that raised
    fatal,           \* the configuration error logged, or "none"
    store0,          \* the bucket when the run started
    manifest0,       \* the manifest lines when the run started
    kept,            \* every upload so far left the object as written
    run,             \* "first" or "second" invocation of main
    first            \* the first run's summary, once a second run started

vars == <<args, tree, store, manifest, pc, files, idx, size, sha, head, total,
          uploaded, skipped, errors, bytes_uploaded, manifest_file, ret, calls,
          outcome, exc, fatal, store0, manifest0, kept, run, first>>

env == <<args, tree>>
counters == <<total, uploaded, skipped, errors, bytes_uploaded>>
locals == <<size, sha, head>>
history == <<store0, manifest0, run, first>>

Indices == 1..Len(tree)
key(i) == KeyOf(args.prefix, tree[i].rel)
content(i) == tree[i].content

NoSummary == [errors |-> -1, uploaded |-> -1, fatal |-> "none", kept |-> FALSE]

TreeOf(n) == [i \in 1..n |-> [rel |-> Paths[i], content |-> Bytes[i]]]

InitFrom(flagSet, prefixSet, manifestSet) ==
    /\ \E f \in flagSet, p \in prefixSet :
          args = [skip_existing |-> f.skip_existing, dry_run |-> f.dry_run,
                  verify |-> f.verify, fail_fast |-> f.fail_fast,
                  manifest |-> f.manifest, prefix |-> p]
    /\ \E n \in 0..MaxFiles : tree = TreeOf(n)
    /\ \E kinds \in [1..Len(tree) -> RemoteKinds] :
          store = [k \in {KeyOf(args.prefix, tree[i].rel) : i \in 1..Len(tree)} |->
                     LET i == CHOOSE j \in 1..Len(tree) : KeyOf(args.prefix, tree[j].rel) = k
                     IN  RemoteOf(kinds[i], tree[i].content)]
    /\ manifest \in manifestSet
    /\ pc = "start"
    /\ files = <<>>
    /\ idx = 0
    /\ size = 0
    /\ sha = NoSha
    /\ head = None
    /\ total = 0 /\ uploaded = 0 /\ skipped = 0 /\ errors = 0 /\ bytes_uploaded = 0
    /\ manifest_file = "None"
    /\ ret = -1
    /\ calls = [i \in 1..Len(tree) |-> {}]
    /\ outcome = [i \in 1..Len(tree) |-> "none"]
    /\ exc = [i \in 1..Len(tree) |-> "none"]
    /\ fatal = "none"
    /\ store0 = store
    /\ manifest0 = manifest
    /\ kept = TRUE
    /\ run = "first"
    /\ first = NoSummary

\* A run whose manifest file, if any, does not exist yet.
InitWith(flagSet, prefixSet) == InitFrom(flagSet, prefixSet, {<<>>})

Init == InitWith(Flags, Prefixes)

\* ----------------------------------------------------------------- actions

\* Lines 143-174: the configuration checks, collect_files, the counters and
\* the manifest handle.
Start ==
    /\ pc = "start"
    /\ \E source_is_dir \in BOOLEAN, credentials \in BOOLEAN :
          IF ~source_is_dir \/ ~credentials
          THEN /\ fatal' = IF ~source_is_dir THEN "source" ELSE "credentials"
               /\ ret' = 1
               /\ pc' = "done"
               /\ UNCHANGED <<files, counters, manifest_file>>
          ELSE /\ files' = tree
               /\ total' = Len(tree)
               /\ uploaded' = 0 /\ skipped' = 0 /\ errors' = 0 /\ bytes_uploaded' = 0
               /\ manifest_file' = IF args.manifest THEN "open" ELSE "None"
               /\ pc' = "for"
               /\ UNCHANGED <<fatal, ret>>
    /\ UNCHANGED <<env, store, manifest, idx, locals, calls, outcome, exc, kept, history>>

\* Lines 176-182: the loop takes the next file and reads its size, mtime and
\* checksum, outside the try block: an OSError here leaves main.
ForNext ==
    /\ pc = "for"
    /\ idx < Len(files)
    /\ idx' = idx + 1
    /\ \E fault \in {"none", "stat", "sha256"} :
          CASE fault = "stat" ->
                 /\ calls' = [calls EXCEPT ![idx + 1] = {"stat"}]
                 /\ exc' = [exc EXCEPT ![idx + 1] = "stat"]
                 /\ pc' = "raised"
                 /\ UNCHANGED <<size, sha>>
            [] fault = "sha256" ->
                 /\ calls' = [calls EXCEPT ![idx + 1] = {"stat", "sha256"}]
                 /\ exc' = [exc EXCEPT ![idx + 1] = "sha256"]
                 /\ size' = st_size(files[idx + 1].content)
                 /\ pc' = "raised"
                 /\ UNCHANGED sha
            [] OTHER ->
                 /\ calls' = [calls EXCEPT ![idx + 1] = {"stat", "sha256"}]
                 /\ size' = st_size(files[idx + 1].content)
                 /\ sha' = compute_sha256(files[idx + 1].content)
                 /\ pc' = IF args.skip_existing THEN "probe" ELSE "upload"
                 /\ UNCHANGED exc
    /\ UNCHANGED <<env, store, manifest, files, head, counters, manifest_file, ret,
                   outcome, fatal, kept, history>>

\* Line 176 with the list exhausted: the loop ends.
ForEnd ==
    /\ pc = "for"
    /\ idx = Len(files)
    /\ pc' = "summary"
    /\ UNCHANGED <<env, store, manifest, files, idx, locals, counters, manifest_file,
                   ret, calls, outcome, exc, fatal, kept, history>>

\* Line 185: head_object, whose ClientError other than a 404 is re-raised.
Probe ==
    /\ pc = "probe"
    /\ calls' = [calls EXCEPT ![idx] = @ \cup {"head"}]
    /\ \E answer \in {"ok", "ClientError"} :
          IF answer = "ok"
          THEN /\ head' = head_object(store, key(idx))
               /\ pc' = "decide"
               /\ UNCHANGED exc
          ELSE /\ exc' = [exc EXCEPT ![idx] = "head"]
               /\ pc' = "except"
               /\ UNCHANGED head
    /\ UNCHANGED <<env, store, manifest, files, idx, size, sha, counters, manifest_file,
                   ret, outcome, fatal, kept, history>>

\* Lines 186-191: the skip decision, its manifest line and counter.
Decide ==
    /\ pc = "decide"
    /\ IF ShouldSkip(args, head, size, sha)
       THEN /\ calls' = [calls EXCEPT ![idx] = @ \cup {"SKIP"}]
            /\ manifest' = ManifestWrite(manifest_file, manifest, sha, key(idx))
            /\ skipped' = skipped + 1
            /\ outcome' = [outcome EXCEPT ![idx] = "skip"]
            /\ pc' = "for"
       ELSE /\ pc' = "upload"
            /\ UNCHANGED <<calls, manifest, skipped, outcome>>
    /\ UNCHANGED <<env, store, files, idx, locals, total, uploaded, errors,
                   bytes_uploaded, manifest_file, ret, exc, fatal, kept, history>>

\* Lines 193-196: the UPLOAD line, then upload_file and the byte counter
\* unless this is a dry run.
Upload ==
    /\ pc = "upload"
    /\ IF Transfers(args)
       THEN \E answer \in {"ClientError", "OSError"} \cup StoreOutcomes :
              /\ calls' = [calls EXCEPT ![idx] = @ \cup {"UPLOAD", "upload"}]
              /\ IF answer \in StoreOutcomes
                 THEN /\ store' = [store EXCEPT ![key(idx)] = AfterUpload(answer, size, sha)]
                      /\ kept' = (kept /\ answer = "stored")
                      /\ bytes_uploaded' = bytes_uploaded + size
                      /\ pc' = IF args.verify THEN "verify" ELSE "record"
                      /\ UNCHANGED exc
                 ELSE /\ exc' = [exc EXCEPT ![idx] = "upload"]
                      /\ pc' = "except"
                      /\ UNCHANGED <<store, kept, bytes_uploaded>>
       ELSE /\ calls' = [calls EXCEPT ![idx] = @ \cup {"UPLOAD"}]
            /\ pc' = "record"
            /\ UNCHANGED <<store, kept, bytes_uploaded, exc>>
    /\ UNCHANGED <<env, manifest, files, idx, locals, total, uploaded, skipped, errors,
                   manifest_file, ret, outcome, fatal, history>>

\* Lines 197-200: the second head_object and the verification.
Verify ==
    /\ pc = "verify"
    /\ calls' = [calls EXCEPT ![idx] = @ \cup {"verify_head"}]
    /\ \E answer \in {"ok", "ClientError"} :
          IF answer = "ok"
          THEN /\ head' = head_object(store, key(idx))
               /\ IF VerificationFailed(head', size, sha)
                  THEN /\ exc' = [exc EXCEPT ![idx] = "verify"]
                       /\ pc' = "except"
                  ELSE /\ pc' = "record"
                       /\ UNCHANGED exc
          ELSE /\ exc' = [exc EXCEPT ![idx] = "verify_head"]
               /\ pc' = "except"
               /\ UNCHANGED head
    /\ UNCHANGED <<env, store, manifest, files, idx, size, sha, counters, manifest_file,
                   ret, outcome, fatal, kept, history>>

\* Lines 201-203: the manifest line and the counter of an upload.
Record ==
    /\ pc = "record"
    /\ manifest' = ManifestWrite(manifest_file, manifest, sha, key(idx))
    /\ uploaded' = uploaded + 1
    /\ outcome' = [outcome EXCEPT ![idx] = "upload"]
    /\ pc' = "for"
    /\ UNCHANGED <<env, store, files, idx, locals, total, skipped, errors, bytes_uploaded,
                   manifest_file, ret, calls, exc, fatal, kept, history>>

\* Lines 204-208: the handler of ClientError, OSError and RuntimeError.
Except ==
    /\ pc = "except"
    /\ errors' = errors + 1
    /\ outcome' = [outcome EXCEPT ![idx] = "error"]
    /\ pc' = AfterError(args)
    /\ UNCHANGED <<env, store, manifest, files, idx, locals, total, uploaded, skipped,
                   bytes_uploaded, manifest_file, ret, calls, exc, fatal, kept, history>>

\* Lines 210-219: the handle is closed, the summary logged, the status returned.
Summary ==
    /\ pc = "summary"
    /\ manifest_file' = IF manifest_file = "open" THEN "closed" ELSE manifest_file
    /\ ret' = ExitStatus(errors)
    /\ pc' = "done"
    /\ UNCHANGED <<env, store, manifest, files, idx, locals, counters, calls, outcome,
                   exc, fatal, kept, history>>

\* A second invocation of main with the same command line, on the same source
\* tree, bucket and manifest file, after the first one returned and with a
\* store that kept what the first one uploaded.
Rerun ==
    /\ pc = "done"
    /\ run = "first"
    /\ kept
    /\ run' = "second"
    /\ first' = [errors |-> errors, uploaded |-> uploaded, fatal |-> fatal, kept |-> kept]
    /\ store0' = store
    /\ manifest0' = manifest
    /\ pc' = "start"
    /\ files' = <<>>
    /\ idx' = 0
    /\ size' = 0 /\ sha' = NoSha /\ head' = None
    /\ total' = 0 /\ uploaded' = 0 /\ skipped' = 0 /\ errors' = 0 /\ bytes_uploaded' = 0
    /\ manifest_file' = "None"
    /\ ret' = -1
    /\ calls' = [i \in Indices |-> {}]
    /\ outcome' = [i \in Indices |-> "none"]
    /\ exc' = [i \in Indices |-> "none"]
    /\ fatal' = "none"
    /\ UNCHANGED <<env, store, manifest, kept>>

Next == Start \/ ForNext \/ ForEnd \/ Probe \/ Decide \/ Upload \/ Verify \/ Record
          \/ Except \/ Summary

Spec == Init /\ [][Next]_vars

\* Two invocations in a row with --skip-existing and without --dry-run.
InitTwice == InitWith({f \in Flags : f.skip_existing /\ ~f.dry_run}, Prefixes)
NextTwice == Next \/ Rerun
SpecTwice == InitTwice /\ [][NextTwice]_vars

\* What the manifest file may hold when open(args.manifest, "a") opens it:
\* nothing, or the line an earlier run wrote for the first file.
EarlierManifests == {<<>>, <<ManifestLine(compute_sha256(Bytes[1]), KeyOf("raw/", Paths[1]))>>}

\* One invocation with --manifest, on a manifest file that may already exist.
InitAppend == InitFrom({f \in Flags : f.manifest}, Prefixes, EarlierManifests)
SpecAppend == InitAppend /\ [][Next]_vars

\* ------------------------------------------------------ terms of the claims

Size(i) == st_size(content(i))
Sha(i) == compute_sha256(content(i))

\* The object matches the local file i in size and stored fingerprint.
RemoteMatches(o, i) == o.present /\ o.ContentLength = Size(i) /\ o.sha256 = Sha(i)

\* The lines this run appended to the manifest, and how many are file i's.
NewLines == SubSeq(manifest, Len(manifest0) + 1, Len(manifest))
LinesOf(i) ==
    Cardinality({p \in 1..Len(NewLines) : NewLines[p] = ManifestLine(Sha(i), key(i))})

\* File i has left the loop body (counted, or the loop was left on its error).
Finished(i) == i < idx \/ (i = idx /\ pc \in {"for", "summary", "done"})

\* The probe of file i, if one was due, has answered.
ProbeAnswered(i) == exc[i] \notin {"stat", "sha256", "head"}

\* The decision of lines 184-193 is behind file i.
Decided(i) == ProbeAnswered(i) /\ (i < idx \/ (i = idx /\ pc \notin {"probe", "decide", "upload"}))

Counted(what) == Cardinality({i \in Indices : outcome[i] = what})

RECURSIVE SumSizes(_)
SumSizes(S) == IF S = {} THEN 0 ELSE LET i == CHOOSE j \in S : TRUE
                                     IN  Size(i) + SumSizes(S \ {i})

\* ------------------------------------------------------------------ claims

\* C1: a file is skipped (SKIP logged, no upload call, skipped + 1) only if
\* skip-existing is on, the probe returned an object, its ContentLength is
\* the local size and its sha256 metadata is the local fingerprint; in every
\* other case in which the probe answered the file takes the upload branch.
C1_SkipOnlyOnMatch ==
    /\ skipped = Counted("skip")
    /\ \A i \in Indices :
          /\ outcome[i] = "skip" =>
                /\ args.skip_existing
                /\ "head" \in calls[i] /\ exc[i] = "none"
                /\ RemoteMatches(store0[key(i)], i)
                /\ "SKIP" \in calls[i]
                /\ "upload" \notin calls[i] /\ "UPLOAD" \notin calls[i]
          /\ Decided(i) =>
                IF args.skip_existing /\ RemoteMatches(store0[key(i)], i)
                THEN outcome[i] = "skip"
                ELSE "UPLOAD" \in calls[i] /\ "SKIP" \notin calls[i] /\ outcome[i] # "skip"

\* C1 witness: with skip-existing, one file skipped and another uploaded
\* although an object of its size exists (the stored fingerprint differs).
C1_Witness ==
    /\ args.skip_existing /\ pc = "done"
    /\ \E i, j \in Indices :
          /\ outcome[i] = "skip"
          /\ outcome[j] = "upload"
          /\ store0[key(j)].present /\ store0[key(j)].ContentLength = Size(j)

\* C3: every per-file failure, at whichever step, is caught by the driver
\* and counted once in errors; none leaves main as an uncaught exception.
C3_NoFailureEscapes ==
    \A i \in Indices :
        exc[i] # "none" => (outcome[i] = "error" \/ (pc = "except" /\ idx = i))

\* C4: with a manifest configured, a file has a manifest line of this run if
\* and only if it was counted as skipped or uploaded; an errored file has
\* none, and no file has more than one.
C4_ManifestIffTerminal ==
    args.manifest =>
        /\ \A i \in Indices :
              LinesOf(i) = IF outcome[i] \in {"skip", "upload"} THEN 1 ELSE 0
        /\ Len(NewLines) = Counted("skip") + Counted("upload")

\* C4 witness: a finished run with a manifest in which a file that failed
\* verification has no line and a later, uploaded file has one.
C4_Witness ==
    /\ args.manifest /\ args.verify /\ pc = "done"
    /\ \E i, j \in Indices :
          /\ i < j
          /\ exc[i] = "verify" /\ outcome[i] = "error" /\ LinesOf(i) = 0
          /\ outcome[j] = "upload" /\ LinesOf(j) = 1

\* C5: in a dry run upload_file is never invoked and the store is unchanged,
\* whatever the other flags and the remote state; each file whose steps did
\* not fail is still counted, and written to the manifest, as the skip or
\* upload the decision gives.
C5_DryRunPurity ==
    args.dry_run =>
        /\ store = store0
        /\ \A i \in Indices : "upload" \notin calls[i] /\ "verify_head" \notin calls[i]
        /\ uploaded = Counted("upload") /\ skipped = Counted("skip")
        /\ \A i \in Indices :
              (Finished(i) /\ exc[i] = "none") =>
                 /\ outcome[i] = IF args.skip_existing /\ RemoteMatches(store0[key(i)], i)
                                 THEN "skip" ELSE "upload"
                 /\ args.manifest => LinesOf(i) = 1

\* C5 witness: a finished dry run with a manifest that recorded a skip and
\* an upload of a file absent from the store.
C5_Witness ==
    /\ args.dry_run /\ args.manifest /\ args.verify /\ pc = "done" /\ ret = 0
    /\ \E i, j \in Indices :
          /\ outcome[i] = "skip"
          /\ outcome[j] = "upload" /\ ~store[key(j)].present
    /\ Len(NewLines) = 2

\* C6 as claimed: main returns non-zero exactly when errors > 0.
C6_ExitIffErrored == pc = "done" => (ret # 0 <=> errors > 0)

\* C6 as amended: main returns non-zero exactly when errors > 0 or the run
\* stopped on a configuration error before any file was processed; it
\* returns zero otherwise, dry runs included.
C6_ExitIffErroredOrFatal ==
    /\ errors = Counted("error")
    /\ pc = "done" =>
          /\ ret \in {0, 1}
          /\ ret # 0 <=> (errors > 0 \/ fatal # "none")

\* C6 witness: a run that uploaded one file, failed on another, returned 1.
C6_Witness ==
    pc = "done" /\ fatal = "none" /\ ret = 1 /\ errors = 1 /\ uploaded = 1

\* C7: with fail-fast, once a file errors no later file is touched (no stat,
\* checksum, probe, upload, verify, manifest line or count), errors <= 1,
\* and the files with an outcome are a prefix of the collected list.
C7_FailFastStops ==
    args.fail_fast =>
        /\ errors <= 1
        /\ \A i, j \in Indices :
              i < j =>
                 /\ (exc[i] # "none" \/ outcome[i] = "error") =>
                        /\ calls[j] = {} /\ outcome[j] = "none" /\ exc[j] = "none"
                        /\ LinesOf(j) = 0
                 /\ outcome[j] # "none" => outcome[i] # "none"

\* C7 witness: a fail-fast run that ended on the error of its first file
\* with a second file left unprocessed.
C7_Witness ==
    /\ args.fail_fast /\ pc = "done" /\ ret = 1
    /\ Len(tree) >= 2
    /\ outcome[1] = "error" /\ outcome[2] = "none"

\* C8: without fail-fast a run that reaches its summary has processed all N
\* files, errors is the number of files one of whose steps raised,
\* uploaded + skipped + errors = total = N, the status is non-zero exactly
\* when some file failed, and each file's outcome is the one its own facts
\* give (its own failure, its own remote state), whatever happened to others.
C8_PartialFailureAccounting ==
    (pc = "done" /\ fatal = "none" /\ ~args.fail_fast) =>
        /\ total = Len(tree) /\ idx = total
        /\ errors = Cardinality({i \in Indices : exc[i] # "none"})
        /\ uploaded + skipped + errors = total
        /\ ret # 0 <=> (\E i \in Indices : exc[i] # "none")
        /\ \A i \in Indices :
              outcome[i] = IF exc[i] # "none" THEN "error"
                           ELSE IF args.skip_existing /\ RemoteMatches(store0[key(i)], i)
                                THEN "skip" ELSE "upload"

\* C8 witness: two files, the upload of the first raised, the second was
\* uploaded all the same, the run returned 1.
C8_Witness ==
    /\ pc = "done" /\ ~args.fail_fast /\ ret = 1
    /\ Len(tree) >= 2
    /\ exc[1] = "upload" /\ outcome[1] = "error"
    /\ outcome[2] = "upload" /\ "upload" \in calls[2]

\* C9: with verify and without dry-run, a file whose re-probe answered is a
\* verification failure exactly when the object is absent or differs in
\* size or sha256; such a file is counted in errors and not in uploaded,
\* has no manifest line, and makes main return non-zero.
C9_VerificationFailureIsError ==
    (args.verify /\ ~args.dry_run) =>
        /\ uploaded = Counted("upload")
        /\ \A i \in Indices :
              /\ ("verify_head" \in calls[i] /\ exc[i] # "verify_head") =>
                    (exc[i] = "verify" <=> ~RemoteMatches(store[key(i)], i))
              /\ outcome[i] = "upload" => RemoteMatches(store[key(i)], i)
              /\ exc[i] = "verify" =>
                    /\ outcome[i] = "error" \/ (pc = "except" /\ idx = i)
                    /\ LinesOf(i) = 0
                    /\ pc = "done" => (ret # 0 /\ errors >= 1)

\* C9 witness: a finished run in which the re-probe found an object of the
\* right size whose sha256 metadata differs.
C9_Witness ==
    /\ args.verify /\ args.manifest /\ pc = "done" /\ ret = 1
    /\ \E i \in Indices :
          /\ exc[i] = "verify" /\ outcome[i] = "error"
          /\ store[key(i)].present /\ store[key(i)].ContentLength = Size(i)

\* C10: at the end of a run that transfers (no dry run), bytes_uploaded is
\* the sum of the sizes of exactly the files counted in uploaded.
C10_BytesOfUploadedOnly ==
    (pc = "done" /\ fatal = "none" /\ ~args.dry_run) =>
        bytes_uploaded = SumSizes({i \in Indices : outcome[i] = "upload"})

C11_ManifestClosedOnEveryExit ==
    (pc \in {"done", "raised"} /\ args.manifest /\ fatal = "none") =>
        manifest_file = "closed"

\* C12: a run with a manifest that ends with errors = 0 has appended exactly
\* total lines, the i-th being "<fingerprint of file i>  <prefix + relative
\* path of file i>\n" for the i-th file of collect_files' output; the lines
\* the file held before the run are still its first lines, at every moment.
C12_ManifestCompleteAndOrdered ==
    /\ Len(manifest) >= Len(manifest0)
    /\ SubSeq(manifest, 1, Len(manifest0)) = manifest0
    /\ (pc = "done" /\ fatal = "none" /\ args.manifest /\ errors = 0) =>
          /\ total = Len(tree)
          /\ Len(manifest) = Len(manifest0) + total
          /\ \A i \in Indices :
                manifest[Len(manifest0) + i] =
                    compute_sha256(tree[i].content) \o "  " \o args.prefix
                        \o tree[i].rel \o "\n"

\* C12 witness: a finished run without errors on a manifest that already
\* held a line, which skipped one file and uploaded another.
C12_Witness ==
    /\ pc = "done" /\ args.manifest /\ errors = 0 /\ ret = 0
    /\ Len(manifest0) >= 1
    /\ total >= 2 /\ Len(manifest) = Len(manifest0) + total
    /\ \E i, j \in Indices : outcome[i] = "upload" /\ outcome[j] = "skip"

====
